---- MODULE Spec2Model ----
(***************************************************************************)
(* Model of the concurrent scraping engine of src/main.py:                 *)
(* CombinedUtkuOptikScraper.scrape_products_from_links, retry_failed_urls, *)
(* scrape_single_product, get_statistics, the exports of                   *)
(* run_complete_scraping, main() and the module's signal handler; and of   *)
(* its sequential helpers get_session, scrape_product_links and            *)
(* clean_price, each under a specification of its own.                     *)
(***************************************************************************)
EXTENDS Integers, Sequences, FiniteSets, TLC

\* ------------------------------------------------------------------ bounds
\* Longest URL list handed to the coordinator in Spec; URLs are numbers.
MaxLinks == 2
\* Largest worker count given to the constructor.
MaxWorkers == 2
\* Worker threads calling get_session, and calls made by each of them.
MaxThreads == 3
MaxCalls == 2
\* Listing pages of the category, distinct product pages of the site, and
\* calls of scrape_product_links on one snapshot of the site.
MaxPages == 2
MaxNames == 2
MaxRuns == 2
\* Longest run of digits, dots and commas in a generated price string.
MaxNumLen == 3

\* ------------------------------------------------------- program constants
\* retry_failed_urls(self, max_retries: int = 2)
max_retries == 2
\* ThreadPoolExecutor(max_workers=min(5, self.max_workers))
RetryPoolCap == 5

\* The URL list of the scenario ["/a", "/b", "/c"] and its three URLs.
ScenarioLinks == <<1, 2, 3>>
UrlA == ScenarioLinks[1]
UrlB == ScenarioLinks[2]
UrlC == ScenarioLinks[3]

Min(a, b) == IF a < b THEN a ELSE b

Range(s) == {s[k] : k \in 1..Len(s)}

RECURSIVE Pow2(_)
Pow2(n) == IF n = 0 THEN 1 ELSE 2 * Pow2(n - 1)

\* What one attempt on a URL meets: a page that parses, a page the parser
\* fails on, a 200 response with an empty body, a requests.RequestException,
\* or any other exception raised while fetching.
Outcomes == {"ok", "parse_error", "empty_body", "request_error", "unexpected"}

VARIABLES
    links,          \* the URL list given to scrape_products_from_links
    max_workers,    \* self.max_workers
    enable_retry,   \* the enable_retry argument
    total_count,    \* self.total_count
    scraped_count,  \* self.scraped_count
    results,        \* self.results: sequence of records
    failed_urls,    \* self.failed_urls: FIFO queue of URLs
    retry_results,  \* local retry_results of retry_failed_urls
    current_failed, \* local current_failed of retry_failed_urls
    retry_attempt,  \* loop variable of retry_failed_urls
    pc,             \* position of the main thread
    i,              \* index of the next URL to submit in the current pool
    collected,      \* futures already taken from as_completed in this pool
    work_queue,     \* executor: submitted units not yet started
    running,        \* executor: units being executed by worker threads
    completed,      \* executor: finished futures not yet collected
    log,            \* per URL, who logged an error in its latest attempt
    io_errors,      \* export and upload steps that logged a failure
    sleeps,         \* the time.sleep calls of the main thread, in order
    attempts,       \* per URL, the number of attempts finished so far
    last,           \* per URL, the outcome of its latest attempt
    always_fetch_failed, \* per URL, every attempt so far was a fetch failure
    parsed,         \* per URL, the latest attempt called the parser
    stats,          \* last dictionary returned by get_statistics
    interrupted,    \* a SIGINT/SIGTERM has been handled
    pool_size,      \* max_workers of the open ThreadPoolExecutor, 0 if none
    fault,          \* exception unwinding the main thread, if any
    exit_status,    \* process exit status, -1 while the process runs
    local_data,     \* self.local_data.session per slot, 0 for no attribute
    sessions_made,  \* requests.Session objects constructed so far
    tpc,            \* per thread, its position in get_session
    session,        \* per thread, the local `session` of get_session
    returned,       \* per thread, the sessions get_session returned to it
    total_pages,    \* self.total_pages
    snapshot,       \* per listing page, what a GET of it meets
    page,           \* loop variable of scrape_product_links
    all_links,      \* local all_links of scrape_product_links
    dlog,           \* GETs and sleeps of the current call, in order
    dpc,            \* position in scrape_product_links
    discovered,     \* the lists returned by the calls made so far
    price_str,      \* the argument of clean_price, a sequence of characters
    cleaned,        \* what clean_price returned
    price_pc,       \* "called" before clean_price runs, "returned" after
    recalled,       \* scrape_products_from_links was called a second time
    before          \* the aggregator state when the latest call was made

\* Variables of get_session.
sessVars == <<local_data, sessions_made, tpc, session, returned>>

\* Variables of scrape_product_links.
discVars == <<total_pages, snapshot, page, all_links, dlog, dpc, discovered>>

\* Variables of clean_price.
priceVars == <<price_str, cleaned, price_pc>>

\* Bookkeeping of the calls made on one scraper instance.
callVars == <<recalled, before>>

\* Variables of the helpers, which the scraping engine leaves alone.
sideVars == <<sessVars, discVars, priceVars, callVars>>

\* Variables of the scraping engine.
mainVars == <<links, max_workers, enable_retry, total_count, scraped_count,
              results, failed_urls, retry_results, current_failed,
              retry_attempt, pc, i, collected, work_queue, running, completed,
              log, io_errors, sleeps, attempts, last, always_fetch_failed,
              parsed, stats, interrupted, pool_size, fault, exit_status>>

vars == <<mainVars, sideVars>>

\* ---------------------------------------------------------- unit of work
\* fetch_page: the body of a 2xx response, None after a logged
\* requests.RequestException; any other exception escapes ("raise").
fetch_page(o) ==
    CASE o = "request_error" -> [html |-> "None", logged |-> TRUE]
      [] o = "unexpected"    -> [html |-> "raise", logged |-> FALSE]
      [] o = "empty_body"    -> [html |-> "", logged |-> FALSE]
      [] OTHER               -> [html |-> "<html>", logged |-> FALSE]

\* Python truth value of what fetch_page returned (`if html:`).
Truthy(html) == html \notin {"None", ""}

\* parse_product_from_html: a ProductInfo, or None after a logged exception.
parse_product_from_html(o) ==
    IF o = "parse_error"
    THEN [product |-> FALSE, logged |-> TRUE]
    ELSE [product |-> TRUE, logged |-> FALSE]

\* scrape_single_product whose except branch forgets failed_urls.put.
scrape_single_product_NoPutOnFault(o) ==
    IF o = "ok"
    THEN [parsed |-> o \in {"ok", "parse_error"},
          result |-> "product", put |-> FALSE, counted |-> TRUE, logs |-> {}]
    ELSE [parsed |-> o \in {"ok", "parse_error"},
          result |-> "None", put |-> o # "unexpected", counted |-> FALSE,
          logs |-> CASE o = "request_error" -> {"fetch_page"}
                     [] o = "parse_error" -> {"parse_product_from_html"}
                     [] o = "unexpected" -> {"scrape_single_product"}
                     [] OTHER -> {}]

\* scrape_single_product that reaches failed_urls.put after a success too.
scrape_single_product_PutAlways(o) ==
    IF o = "ok"
    THEN [parsed |-> o \in {"ok", "parse_error"},
          result |-> "product", put |-> TRUE, counted |-> TRUE, logs |-> {}]
    ELSE [parsed |-> o \in {"ok", "parse_error"},
          result |-> "None", put |-> TRUE, counted |-> FALSE,
          logs |-> CASE o = "request_error" -> {"fetch_page"}
                     [] o = "parse_error" -> {"parse_product_from_html"}
                     [] o = "unexpected" -> {"scrape_single_product"}
                     [] OTHER -> {}]

\* scrape_single_product without its try/except: the exception escapes.
scrape_single_product_NoExcept(o) ==
    IF o = "ok"
    THEN [parsed |-> o \in {"ok", "parse_error"},
          result |-> "product", put |-> FALSE, counted |-> TRUE, logs |-> {}]
    ELSE IF o = "unexpected"
    THEN [parsed |-> o \in {"ok", "parse_error"},
          result |-> "raise", put |-> FALSE, counted |-> FALSE, logs |-> {}]
    ELSE [parsed |-> o \in {"ok", "parse_error"},
          result |-> "None", put |-> TRUE, counted |-> FALSE,
          logs |-> CASE o = "request_error" -> {"fetch_page"}
                     [] o = "parse_error" -> {"parse_product_from_html"}
                     [] OTHER -> {}]

\* scrape_single_product on an attempt meeting outcome o: what the future
\* holds ("product", "None", or "raise" for an escaping exception), whether
\* the URL is put on failed_urls, whether scraped_count is incremented,
\* which functions logged an error for the URL, and whether the page was
\* handed to parse_product_from_html.
scrape_single_product(o) ==
    LET f == fetch_page(o) IN
    IF f.html = "raise"
    THEN [result |-> "None", put |-> TRUE, counted |-> FALSE,
          logs |-> {"scrape_single_product"}, parsed |-> FALSE]
    ELSE IF Truthy(f.html)
    THEN LET p == parse_product_from_html(o) IN
         IF p.product
         THEN [result |-> "product", put |-> FALSE, counted |-> TRUE,
               logs |-> {}, parsed |-> TRUE]
         ELSE [result |-> "None", put |-> TRUE, counted |-> FALSE,
               logs |-> IF p.logged THEN {"parse_product_from_html"} ELSE {},
               parsed |-> TRUE]
    ELSE [result |-> "None", put |-> TRUE, counted |-> FALSE,
          logs |-> IF f.logged THEN {"fetch_page"} ELSE {},
          parsed |-> FALSE]

\* The ProductInfo parsed from the page of URL u (product.link = page_url).
ProductInfo(u) == [link |-> u]

\* get_statistics reporting the progress counter as the total.
get_statistics_WrongTotal ==
    [total_urls |-> scraped_count,
     successful_scrapes |-> Len(results),
     failed_scrapes |-> Len(failed_urls),
     success_rate |-> IF total_count > 0
                      THEN [num |-> Len(results) * 100, den |-> total_count]
                      ELSE [num |-> 0, den |-> 1]]

\* get_statistics dividing without the `if self.total_count > 0` guard.
get_statistics_Unguarded ==
    [total_urls |-> total_count,
     successful_scrapes |-> Len(results),
     failed_scrapes |-> Len(failed_urls),
     success_rate |-> [num |-> Len(results) * 100, den |-> total_count]]

\* get_statistics; success_rate is the exact quotient num/den.
get_statistics ==
    [total_urls |-> total_count,
     successful_scrapes |-> Len(results),
     failed_scrapes |-> Len(failed_urls),
     success_rate |-> IF total_count > 0
                      THEN [num |-> Len(results) * 100, den |-> total_count]
                      ELSE [num |-> 0, den |-> 1]]

NoStats == [total_urls |-> -1, successful_scrapes |-> -1,
            failed_scrapes |-> -1, success_rate |-> [num |-> 0, den |-> 1]]

\* ------------------------------------------------------------------ Init
\* A freshly constructed scraper (__init__) and the arguments of a run over
\* the URL list L.
InitFor(L) ==
    /\ links = L
    /\ max_workers \in 0..MaxWorkers
    /\ enable_retry \in BOOLEAN
    /\ total_count = 0
    /\ scraped_count = 0
    /\ results = <<>>
    /\ failed_urls = <<>>
    /\ retry_results = <<>>
    /\ current_failed = <<>>
    /\ retry_attempt = 0
    /\ pc = "start"
    /\ i = 1
    /\ collected = 0
    /\ work_queue = <<>>
    /\ running = {}
    /\ completed = <<>>
    /\ log = [u \in Range(L) |-> {}]
    /\ io_errors = {}
    /\ sleeps = <<>>
    /\ attempts = [u \in Range(L) |-> 0]
    /\ last = [u \in Range(L) |-> "none"]
    /\ always_fetch_failed = [u \in Range(L) |-> FALSE]
    /\ parsed = [u \in Range(L) |-> FALSE]
    /\ stats = NoStats
    /\ interrupted = FALSE
    /\ pool_size = 0
    /\ fault = "none"
    /\ exit_status = -1

\* The worker threads that call get_session.
Threads == 1..MaxThreads

\* `self.local_data = threading.local()` of __init__: no thread has a
\* session attribute, and no thread is inside get_session.
SessionInit ==
    /\ local_data = [t \in Threads |-> 0]
    /\ sessions_made = 0
    /\ tpc = [t \in Threads |-> "idle"]
    /\ session = [t \in Threads |-> 0]
    /\ returned = [t \in Threads |-> <<>>]

\* The href values an anchor of a listing page can carry: the relative
\* address of a product page, or of some other page of the site.
Hrefs ==
    {[prefix |-> "urun/", name |-> n] : n \in 1..MaxNames}
      \cup {[prefix |-> "kategori/", name |-> 1]}

\* What requests.get of a listing page meets: status 200 and the hrefs of
\* the page's product divs, another status, or an exception.
PageResponses ==
    {[kind |-> "ok", hrefs |-> H] : H \in SUBSET Hrefs}
      \cup {[kind |-> "non200", hrefs |-> {}], [kind |-> "raise", hrefs |-> {}]}

\* scrape_product_links is entered on a site of n listing pages.
DiscoveryInit(n) ==
    /\ total_pages = n
    /\ snapshot \in [1..n -> PageResponses]
    /\ page = 1
    /\ all_links = {}
    /\ dlog = <<>>
    /\ dpc = "pages"
    /\ discovered = <<>>

\* No call of scrape_product_links is modelled.
DiscoveryIdle ==
    /\ total_pages = 0
    /\ snapshot = <<>>
    /\ page = 1
    /\ all_links = {}
    /\ dlog = <<>>
    /\ dpc = "idle"
    /\ discovered = <<>>

\* No call has been recorded.
NoCall == [results |-> <<>>, failed_urls |-> <<>>, total_count |-> 0,
           scraped_count |-> 0, sleeps |-> <<>>]

\* The instance has not been called directly.
CallIdle == recalled = FALSE /\ before = NoCall

\* No call of clean_price is modelled.
PriceIdle == price_str = <<>> /\ cleaned = <<>> /\ price_pc = "idle"

\* The helpers at rest while the scraping engine is explored.
SideIdle == SessionInit /\ DiscoveryIdle /\ PriceIdle /\ CallIdle

\* The scraping engine at rest while a helper is explored.
MainIdle == InitFor(<<>>) /\ max_workers = 0 /\ enable_retry = FALSE

\* Any URL list of at most MaxLinks distinct URLs, the empty one included.
Init == SideIdle /\ \E n \in 0..MaxLinks : InitFor([k \in 1..n |-> k])

\* The run over the URL list of the scenario.
InitScenario == SideIdle /\ InitFor(ScenarioLinks)

\* Variables of the worker pool and of the units of work.
poolVars == <<work_queue, running, completed>>
histVars == <<attempts, last, always_fetch_failed, parsed>>
unitVars == <<scraped_count, failed_urls, log, histVars>>
\* The arguments of the run; no step of the engine changes them, nor the
\* variables of the helpers.
argVars  == <<links, max_workers, enable_retry, sideVars>>
retryVars == <<retry_results, current_failed, retry_attempt>>
exitVars == <<interrupted, fault, exit_status>>

\* ------------------------------------------------- scrape_products_from_links
\* run_complete_scraping calls scrape_products_from_links unless the list is
\* empty; the counters are reset and the main pool is created.
BeginScrape ==
    /\ pc = "start"
    /\ IF links = <<>>
       THEN /\ pc' = "exited"
            /\ exit_status' = 0
            /\ UNCHANGED <<total_count, scraped_count, pool_size, fault>>
       ELSE /\ total_count' = Len(links)
            /\ scraped_count' = 0
            /\ IF max_workers <= 0
               THEN /\ pc' = "exited"
                    /\ fault' = "Exception"
                    /\ exit_status' = 1
                    /\ UNCHANGED pool_size
               ELSE /\ pc' = "submit"
                    /\ pool_size' = max_workers
                    /\ UNCHANGED <<fault, exit_status>>
    /\ i' = 1
    /\ collected' = 0
    /\ UNCHANGED <<argVars, results, failed_urls, retryVars, poolVars, log,
                   io_errors, sleeps, histVars, stats, interrupted>>

\* A loop that sleeps after the last submission too.
DelayAfter_Always == TRUE

\* `if i < len(links) - 1` (i counts from 0 there, from 1 here): a delay
\* follows every submission but the last.
DelayAfter == i < Len(links)

\* executor.submit(self.scrape_single_product, url) in the dispatch loop.
Submit ==
    /\ pc = "submit"
    /\ work_queue' = Append(work_queue, [url |-> links[i], pass |-> 0])
    /\ pc' = IF DelayAfter THEN "delay" ELSE "collect"
    /\ UNCHANGED <<argVars, total_count, results, retryVars, i, collected,
                   running, completed, unitVars, io_errors, sleeps, stats, pool_size,
                   exitVars>>

\* time.sleep(delay) after every submission but the last.
Delay ==
    /\ pc = "delay"
    /\ sleeps' = Append(sleeps, [kind |-> "delay", n |-> i])
    /\ i' = i + 1
    /\ pc' = "submit"
    /\ UNCHANGED <<argVars, total_count, results, retryVars, collected,
                   poolVars, unitVars, io_errors, stats, pool_size, exitVars>>

\* A worker thread of the pool takes the next submitted unit.
StartUnit ==
    /\ work_queue # <<>>
    /\ Cardinality(running) < pool_size
    /\ running' = running \cup {Head(work_queue)}
    /\ work_queue' = Tail(work_queue)
    /\ UNCHANGED <<argVars, total_count, results, retryVars, pc, i, collected,
                   completed, unitVars, io_errors, sleeps, stats, pool_size, exitVars>>

\* A worker thread finishes scrape_single_product for unit w, having met
\* outcome o.
FinishUnit(w, o) ==
    LET r == scrape_single_product(o) IN
    /\ w \in running
    /\ running' = running \ {w}
    /\ completed' = Append(completed, [url |-> w.url, result |-> r.result])
    /\ scraped_count' = IF r.counted THEN scraped_count + 1 ELSE scraped_count
    /\ failed_urls' = IF r.put THEN Append(failed_urls, w.url) ELSE failed_urls
    /\ log' = [log EXCEPT ![w.url] = r.logs]
    /\ attempts' = [attempts EXCEPT ![w.url] = @ + 1]
    /\ last' = [last EXCEPT ![w.url] = o]
    /\ parsed' = [parsed EXCEPT ![w.url] = r.parsed]
    /\ always_fetch_failed' =
         [always_fetch_failed EXCEPT ![w.url] =
            o = "request_error" /\ (attempts[w.url] = 0 \/ @)]
    /\ UNCHANGED <<argVars, total_count, results, retryVars, pc, i, collected,
                   work_queue, io_errors, sleeps, stats, pool_size, exitVars>>

\* Number of futures the current as_completed loop waits for.
Expected == IF pc = "collect" THEN Len(links) ELSE Len(current_failed)

\* The as_completed loop has yielded every future of the pool.
AllCollected == collected = Expected

\* One iteration of `for future in as_completed(futures)` of the initial
\* dispatch: a product is appended to self.results.
Collect ==
    /\ pc = "collect"
    /\ completed # <<>>
    /\ LET f == Head(completed) IN
       IF f.result = "raise"
       THEN /\ fault' = "Exception"
            /\ pc' = "shutdown"
            /\ UNCHANGED <<results, collected>>
       ELSE /\ results' = IF f.result = "product"
                          THEN Append(results, ProductInfo(f.url))
                          ELSE results
            /\ collected' = collected + 1
            /\ UNCHANGED <<fault, pc>>
    /\ completed' = Tail(completed)
    /\ UNCHANGED <<argVars, total_count, retryVars, i, work_queue, running,
                   unitVars, io_errors, sleeps, stats, pool_size, interrupted,
                   exit_status>>

\* An executor left without waiting for its units (shutdown(wait=False)).
PoolIdle_NoWait == TRUE

\* The worker threads of the pool have nothing left to run: what
\* ThreadPoolExecutor.__exit__ (shutdown(wait=True)) waits for.
PoolIdle == work_queue = <<>> /\ running = {}

\* End of the `with ThreadPoolExecutor` block of the initial dispatch, then
\* `if enable_retry:`; without retry the function returns.
EndDispatch ==
    /\ pc = "collect"
    /\ AllCollected
    /\ PoolIdle
    /\ pool_size' = 0
    /\ pc' = IF enable_retry THEN "retry_check" ELSE "done"
    /\ retry_attempt' = 0
    /\ retry_results' = <<>>
    /\ UNCHANGED <<argVars, total_count, results, current_failed, i,
                   collected, poolVars, unitVars, io_errors, sleeps, stats, exitVars>>

\* `for retry_attempt in range(max_retries)` and the emptiness test at the
\* head of its body.
RetryLoopContinues_OneMore ==
    retry_attempt <= max_retries /\ failed_urls # <<>>

RetryLoopContinues == retry_attempt < max_retries /\ failed_urls # <<>>

\* `while not self.failed_urls.empty(): current_failed.append(get())`: the
\* batch taken and what is left in the queue.
Drain_Peek == [batch |-> failed_urls, rest |-> failed_urls]

\* A drain that takes one URL (`if` in place of `while`).
Drain_OnlyFirst ==
    [batch |-> <<Head(failed_urls)>>, rest |-> Tail(failed_urls)]

Drain == [batch |-> failed_urls, rest |-> <<>>]

\* Head of the loop of retry_failed_urls: leave it (and return, the caller
\* extending self.results) after max_retries passes or on an empty queue,
\* else drain the queue into current_failed.
RetryCheck ==
    /\ pc = "retry_check"
    /\ IF RetryLoopContinues
       THEN /\ current_failed' = Drain.batch
            /\ failed_urls' = Drain.rest
            /\ pc' = "retry_sleep"
            /\ UNCHANGED results
       ELSE /\ results' = results \o retry_results
            /\ pc' = "done"
            /\ UNCHANGED <<current_failed, failed_urls>>
    /\ UNCHANGED <<argVars, total_count, scraped_count, retry_results,
                   retry_attempt, i, collected, poolVars, log, io_errors,
                   sleeps, histVars, stats, pool_size, exitVars>>

\* A backoff keyed to the pass number counted from 1.
BackoffSeconds_OneBased == Pow2(retry_attempt + 1)

\* `2 ** retry_attempt`, retry_attempt counting the passes from 0.
BackoffSeconds == Pow2(retry_attempt)

\* A retry pool as large as the main pool.
RetryPoolSize_Uncapped == max_workers

\* `min(5, self.max_workers)`: the size of the pool of a retry pass.
RetryPoolSize == Min(RetryPoolCap, max_workers)

\* time.sleep(2 ** retry_attempt), then the retry pool is created.
RetrySleep ==
    /\ pc = "retry_sleep"
    /\ sleeps' = Append(sleeps, [kind |-> "backoff", n |-> BackoffSeconds])
    /\ pool_size' = RetryPoolSize
    /\ i' = 1
    /\ collected' = 0
    /\ pc' = "retry_submit"
    /\ UNCHANGED <<argVars, total_count, results, retryVars, poolVars,
                   unitVars, io_errors, stats, exitVars>>

\* One executor.submit of the dictionary comprehension over current_failed.
RetrySubmit ==
    /\ pc = "retry_submit"
    /\ work_queue' = Append(work_queue, [url |-> current_failed[i],
                                         pass |-> retry_attempt + 1])
    /\ IF i < Len(current_failed)
       THEN i' = i + 1 /\ UNCHANGED pc
       ELSE pc' = "retry_collect" /\ UNCHANGED i
    /\ UNCHANGED <<argVars, total_count, results, retryVars, collected,
                   running, completed, unitVars, io_errors, sleeps, stats, pool_size,
                   exitVars>>

\* One iteration of `for future in as_completed(future_to_url)`.
RetryCollect ==
    /\ pc = "retry_collect"
    /\ completed # <<>>
    /\ LET f == Head(completed) IN
       IF f.result = "raise"
       THEN /\ fault' = "Exception"
            /\ pc' = "shutdown"
            /\ UNCHANGED <<retry_results, collected>>
       ELSE /\ retry_results' = IF f.result = "product"
                                THEN Append(retry_results, ProductInfo(f.url))
                                ELSE retry_results
            /\ collected' = collected + 1
            /\ UNCHANGED <<fault, pc>>
    /\ completed' = Tail(completed)
    /\ UNCHANGED <<argVars, total_count, results, current_failed,
                   retry_attempt, i, work_queue, running, unitVars, io_errors, sleeps,
                   stats, pool_size, interrupted, exit_status>>

\* End of the `with` block of a retry pass; next iteration of the loop.
EndRetryPass ==
    /\ pc = "retry_collect"
    /\ AllCollected
    /\ PoolIdle
    /\ pool_size' = 0
    /\ retry_attempt' = retry_attempt + 1
    /\ pc' = "retry_check"
    /\ UNCHANGED <<argVars, total_count, results, retry_results,
                   current_failed, i, collected, poolVars, unitVars, io_errors, sleeps,
                   stats, exitVars>>

\* ------------------------------------------------------ run_complete_scraping
\* write_results_to_tsv: nothing is written when there are no results;
\* an exception while writing is logged.
write_results_to_tsv ==
    /\ pc = "done"
    /\ \E failed \in BOOLEAN :
         io_errors' = IF failed /\ results # <<>>
                      THEN io_errors \cup {"write_results_to_tsv"}
                      ELSE io_errors
    /\ pc' = "export_json"
    /\ UNCHANGED <<argVars, total_count, results, retryVars, i, collected,
                   poolVars, unitVars, sleeps, stats, pool_size, exitVars>>

\* export_to_json: an exception while writing is logged.
export_to_json ==
    /\ pc = "export_json"
    /\ \E failed \in BOOLEAN :
         io_errors' = IF failed THEN io_errors \cup {"export_to_json"}
                      ELSE io_errors
    /\ pc' = "upload"
    /\ UNCHANGED <<argVars, total_count, results, retryVars, i, collected,
                   poolVars, unitVars, sleeps, stats, pool_size, exitVars>>

\* upload_to_sftp (a failure is logged and returns False), get_statistics,
\* and the normal end of main().
UploadAndReport ==
    /\ pc = "upload"
    /\ \E failed \in BOOLEAN :
         io_errors' = IF failed THEN io_errors \cup {"upload_to_sftp"}
                      ELSE io_errors
    /\ stats' = get_statistics
    /\ pc' = "exited"
    /\ exit_status' = 0
    /\ UNCHANGED <<argVars, total_count, results, retryVars, i, collected,
                   poolVars, unitVars, sleeps, pool_size, interrupted, fault>>

\* ------------------------------------------------------------- interruption
\* signal_handler on SIGINT or SIGTERM: sys.exit(0) raises SystemExit in the
\* main thread; inside a `with ThreadPoolExecutor` block the executor's
\* __exit__ first waits for the submitted units.
signal_handler ==
    /\ exit_status = -1
    /\ interrupted' = TRUE
    /\ fault' = "SystemExit"
    /\ IF pool_size > 0
       THEN pc' = "shutdown" /\ UNCHANGED exit_status
       ELSE pc' = "exited" /\ exit_status' = 0
    /\ UNCHANGED <<argVars, total_count, results, retryVars, i, collected,
                   poolVars, unitVars, io_errors, sleeps, stats, pool_size>>

\* The pool has been joined; the exception leaves main(): SystemExit(0) is
\* not caught, any Exception is caught and turned into sys.exit(1).
ShutdownExit ==
    /\ pc = "shutdown"
    /\ PoolIdle
    /\ pc' = "exited"
    /\ pool_size' = 0
    /\ exit_status' = IF fault = "SystemExit" THEN 0 ELSE 1
    /\ UNCHANGED <<argVars, total_count, results, retryVars, i, collected,
                   poolVars, unitVars, io_errors, sleeps, stats, interrupted, fault>>

Next ==
    \/ BeginScrape
    \/ Submit
    \/ Delay
    \/ StartUnit
    \/ \E w \in running, o \in Outcomes : FinishUnit(w, o)
    \/ Collect
    \/ EndDispatch
    \/ RetryCheck
    \/ RetrySleep
    \/ RetrySubmit
    \/ RetryCollect
    \/ EndRetryPass
    \/ write_results_to_tsv
    \/ export_to_json
    \/ UploadAndReport
    \/ signal_handler
    \/ ShutdownExit

Spec == Init /\ [][Next]_vars

SpecScenario == InitScenario /\ [][Next]_vars

\* One URL more than the retry pool can run at once.
SaturatingLinks == [k \in 1..(RetryPoolCap + 1) |-> k]

\* The state in which retry_failed_urls is entered after the initial dispatch
\* of the URL list L by W workers, when every URL met a RequestException and
\* the units finished in the order of submission.
RetryEntry(L, W) ==
    /\ SideIdle
    /\ links = L
    /\ max_workers = W
    /\ enable_retry = TRUE
    /\ total_count = Len(L)
    /\ scraped_count = 0
    /\ results = <<>>
    /\ failed_urls = L
    /\ retry_results = <<>>
    /\ current_failed = <<>>
    /\ retry_attempt = 0
    /\ pc = "retry_check"
    /\ i = Len(L)
    /\ collected = Len(L)
    /\ work_queue = <<>>
    /\ running = {}
    /\ completed = <<>>
    /\ log = [u \in Range(L) |-> {"fetch_page"}]
    /\ io_errors = {}
    /\ sleeps = [k \in 1..(Len(L) - 1) |-> [kind |-> "delay", n |-> k]]
    /\ attempts = [u \in Range(L) |-> 1]
    /\ last = [u \in Range(L) |-> "request_error"]
    /\ always_fetch_failed = [u \in Range(L) |-> TRUE]
    /\ parsed = [u \in Range(L) |-> FALSE]
    /\ stats = NoStats
    /\ interrupted = FALSE
    /\ pool_size = 0
    /\ fault = "none"
    /\ exit_status = -1

\* A fresh run over a short list, or the entry of the retry phase with more
\* pending URLs than the retry pool has workers.
InitPool ==
    \/ Init
    \/ RetryEntry(SaturatingLinks, Len(SaturatingLinks))

\* The steps of the dispatch and of the retry passes when every attempt made
\* from here on succeeds; the timing of the units is left free.
NextPool ==
    \/ BeginScrape
    \/ Submit
    \/ Delay
    \/ StartUnit
    \/ \E w \in running : FinishUnit(w, "ok")
    \/ Collect
    \/ EndDispatch
    \/ RetryCheck
    \/ RetrySleep
    \/ RetrySubmit
    \/ RetryCollect
    \/ EndRetryPass

SpecPool == InitPool /\ [][NextPool]_vars

\* The steps of scrape_products_from_links, from the call to its return,
\* when no signal interrupts it.
NextRun ==
    \/ BeginScrape
    \/ Submit
    \/ Delay
    \/ StartUnit
    \/ \E w \in running, o \in Outcomes : FinishUnit(w, o)
    \/ Collect
    \/ EndDispatch
    \/ RetryCheck
    \/ RetrySleep
    \/ RetrySubmit
    \/ RetryCollect
    \/ EndRetryPass

\* An uninterrupted call in which the main thread and the pool threads keep
\* being scheduled and every attempt returns (the requests carry a timeout).
SpecLive == Init /\ [][NextRun]_vars /\ WF_vars(NextRun)

\* ---------------------------------------------------------------- get_session
\* An attribute store shared by all threads (a plain object in place of
\* threading.local()).
LocalSlot_Shared(t) == 1

\* `self.local_data = threading.local()`: the attributes thread t reads and
\* writes are its own.
LocalSlot(t) == t

\* Thread t enters get_session (called by fetch_page) and evaluates
\* `if not hasattr(self.local_data, 'session')`.
GetSessionEnter(t) ==
    /\ tpc[t] = "idle"
    /\ Len(returned[t]) < MaxCalls
    /\ tpc' = [tpc EXCEPT ![t] = IF local_data[LocalSlot(t)] = 0
                                 THEN "create" ELSE "return"]
    /\ UNCHANGED <<mainVars, callVars, discVars, priceVars, local_data, sessions_made, session,
                   returned>>

\* `session = requests.Session()`, the adapters and the header.
CreateSession(t) ==
    /\ tpc[t] = "create"
    /\ sessions_made' = sessions_made + 1
    /\ session' = [session EXCEPT ![t] = sessions_made + 1]
    /\ tpc' = [tpc EXCEPT ![t] = "store"]
    /\ UNCHANGED <<mainVars, callVars, discVars, priceVars, local_data, returned>>

\* `self.local_data.session = session`.
StoreSession(t) ==
    /\ tpc[t] = "store"
    /\ local_data' = [local_data EXCEPT ![LocalSlot(t)] = session[t]]
    /\ tpc' = [tpc EXCEPT ![t] = "return"]
    /\ UNCHANGED <<mainVars, callVars, discVars, priceVars, sessions_made, session, returned>>

\* `return self.local_data.session`.
ReturnSession(t) ==
    /\ tpc[t] = "return"
    /\ returned' = [returned EXCEPT ![t] = Append(@, local_data[LocalSlot(t)])]
    /\ tpc' = [tpc EXCEPT ![t] = "idle"]
    /\ UNCHANGED <<mainVars, callVars, discVars, priceVars, local_data, sessions_made, session>>

InitSession ==
    MainIdle /\ DiscoveryIdle /\ PriceIdle /\ CallIdle /\ SessionInit

NextSession ==
    \E t \in Threads :
        \/ GetSessionEnter(t)
        \/ CreateSession(t)
        \/ StoreSession(t)
        \/ ReturnSession(t)

\* Worker threads calling get_session at any times, in any interleaving.
SpecSession == InitSession /\ [][NextSession]_vars

\* ------------------------------------------------------- scrape_product_links
\* `a_tag["href"].startswith("urun/")`.
IsProductHref(h) == h.prefix = "urun/"

\* `self.base_url + "/" + a_tag["href"].lstrip("/")`.
FullLink(h) == [base |-> "base_url", sep |-> "/", href |-> h]

\* String order of two links made by FullLink from product hrefs: they share
\* the base and the prefix, so the name decides.
LinkLess(a, b) == a.href.name < b.href.name

\* A conversion to a list that puts the greatest link first.
RECURSIVE Sorted_Descending(_)
Sorted_Descending(S) ==
    IF S = {} THEN <<>>
    ELSE LET m == CHOOSE x \in S : \A y \in S : ~LinkLess(x, y)
         IN  <<m>> \o Sorted_Descending(S \ {m})

\* `sorted(list(all_links))`.
RECURSIVE Sorted(_)
Sorted(S) ==
    IF S = {} THEN <<>>
    ELSE LET m == CHOOSE x \in S : \A y \in S : ~LinkLess(y, x)
         IN  <<m>> \o Sorted(S \ {m})

\* One iteration of `for page in range(1, self.total_pages + 1)`: the GET,
\* then either `continue` (another status, or an exception) or the product
\* links of the page are added to all_links and time.sleep(0.5) follows.
ScrapePage ==
    /\ dpc = "pages"
    /\ page <= total_pages
    /\ LET r == snapshot[page] IN
       /\ dlog' = dlog \o <<[e |-> "get", page |-> page]>>
                       \o (IF r.kind = "ok"
                           THEN <<[e |-> "sleep", page |-> page]>> ELSE <<>>)
       /\ all_links' = IF r.kind = "ok"
                       THEN all_links
                              \cup {FullLink(h) : h \in {x \in r.hrefs : IsProductHref(x)}}
                       ELSE all_links
    /\ page' = page + 1
    /\ UNCHANGED <<mainVars, callVars, sessVars, priceVars, total_pages, snapshot, dpc, discovered>>

\* After the loop: the sorted list is built, the file is written and the
\* list returned; a failed write is logged only, while os.makedirs stands
\* outside the try and its exception leaves the function.
SortAndSave ==
    /\ dpc = "pages"
    /\ page > total_pages
    /\ \E o \in {"saved", "write_error", "makedirs_error"} :
         IF o = "makedirs_error"
         THEN dpc' = "raised" /\ UNCHANGED discovered
         ELSE dpc' = "returned"
              /\ discovered' = Append(discovered, Sorted(all_links))
    /\ UNCHANGED <<mainVars, callVars, sessVars, priceVars, total_pages, snapshot, page, all_links,
                   dlog>>

\* scrape_product_links is called again on the same snapshot of the site.
CallAgain ==
    /\ dpc = "returned"
    /\ Len(discovered) < MaxRuns
    /\ page' = 1
    /\ all_links' = {}
    /\ dlog' = <<>>
    /\ dpc' = "pages"
    /\ UNCHANGED <<mainVars, callVars, sessVars, priceVars, total_pages, snapshot, discovered>>

InitDiscover ==
    /\ MainIdle
    /\ SessionInit
    /\ PriceIdle
    /\ CallIdle
    /\ \E n \in 1..MaxPages : DiscoveryInit(n)

NextDiscover == ScrapePage \/ SortAndSave \/ CallAgain

\* Calls of scrape_product_links over every small snapshot of the site.
SpecDiscover == InitDiscover /\ [][NextDiscover]_vars

\* ---------------------------------------------------------------- clean_price
\* Strings are sequences of one-character strings.
DigitChars == {"0", "1", "2", "3", "4", "5", "6", "7", "8", "9"}

\* The characters the class [\d.,] matches.
NumericChars == DigitChars \cup {".", ","}

\* str.strip(): leading and trailing blanks removed.
RECURSIVE Strip(_)
Strip(s) ==
    IF s = <<>> THEN s
    ELSE IF Head(s) = " " THEN Strip(Tail(s))
    ELSE IF s[Len(s)] = " " THEN Strip(SubSeq(s, 1, Len(s) - 1))
    ELSE s

\* `sub in s`.
Contains(s, sub) ==
    \E k \in 1..(Len(s) - Len(sub) + 1) : SubSeq(s, k, k + Len(sub) - 1) = sub

\* re.findall(r'[\d.,]+', s)[0]: the first maximal run of digits, dots and
\* commas of s; the empty sequence when findall returns no match.
FirstNumericRun(s) ==
    LET starts == {k \in 1..Len(s) : s[k] \in NumericChars} IN
    IF starts = {} THEN <<>>
    ELSE LET a == CHOOSE k \in starts : \A j \in starts : k <= j
             b == CHOOSE k \in a..Len(s) :
                    /\ \A j \in a..k : s[j] \in NumericChars
                    /\ k = Len(s) \/ s[k + 1] \notin NumericChars
         IN  SubSeq(s, a, b)

\* str.replace(c, r) for a one-character c and a string r.
RECURSIVE Replace(_, _, _)
Replace(s, c, r) ==
    IF s = <<>> THEN <<>>
    ELSE (IF Head(s) = c THEN r ELSE <<Head(s)>>) \o Replace(Tail(s), c, r)

\* A normalisation that turns commas into dots and keeps the dots.
NormalizeNumber_KeepDots(m) == Replace(m, ",", <<".">>)

\* The if/elif on the numeric part: with a comma and a dot, the dots are
\* removed and the comma becomes a dot; with a comma only, it becomes a dot.
NormalizeNumber(m) ==
    IF Contains(m, <<",">>) /\ Contains(m, <<".">>)
    THEN Replace(Replace(m, ".", <<>>), ",", <<".">>)
    ELSE IF Contains(m, <<",">>)
    THEN Replace(m, ",", <<".">>)
    ELSE m

\* clean_price.
clean_price(s) ==
    IF s = <<>> THEN <<>>
    ELSE LET t == Strip(s)
             m == FirstNumericRun(t)
         IN  IF Contains(t, <<"T", "L">>) /\ m # <<>>
             THEN NormalizeNumber(m) \o <<" ", "T", "R", "Y">>
             ELSE t

\* "1.234,56 TL" and "199,90 TL".
PriceWithThousands ==
    <<"1", ".", "2", "3", "4", ",", "5", "6", " ", "T", "L">>
PriceWithComma == <<"1", "9", "9", ",", "9", "0", " ", "T", "L">>

\* Every sequence over the set S of length at most n.
SeqsUpTo(S, n) == UNION {[1..k -> S] : k \in 0..n}

\* The price strings tried: the two of the scenario, and every short run of
\* "1", "." and "," between an optional lead and an optional currency tail.
PriceInputs ==
    {PriceWithThousands, PriceWithComma}
      \cup {lead \o num \o tail :
              lead \in {<<>>, <<" ">>, <<"T", "L", " ">>},
              num \in SeqsUpTo({"1", ".", ","}, MaxNumLen),
              tail \in {<<>>, <<"T", "L">>, <<" ", "T", "L">>,
                        <<" ", "T", "L", " ">>, <<" ", "T", "R", "Y">>}}

\* The call clean_price(price_str) returns.
CleanPrice ==
    /\ price_pc = "called"
    /\ cleaned' = clean_price(price_str)
    /\ price_pc' = "returned"
    /\ UNCHANGED <<mainVars, callVars, sessVars, discVars, price_str>>

InitPrice ==
    /\ MainIdle
    /\ SessionInit
    /\ DiscoveryIdle
    /\ CallIdle
    /\ price_str \in PriceInputs
    /\ cleaned = <<>>
    /\ price_pc = "called"

NextPrice == CleanPrice

\* clean_price applied to each of the price strings.
SpecPrice == InitPrice /\ [][NextPrice]_vars

\* -------------------------------------------- repeated calls on one instance
\* The URL lists a caller passes: none, one or two URLs of the scenario.
CallLists == {<<>>, <<UrlA>>, <<UrlB>>, <<UrlA, UrlB>>}

\* A call that resets the counters before looking at the list.
ResetsCounters_Always(L) == TRUE

\* `if not links: ... return` stands before `self.total_count = len(links)`
\* and `self.scraped_count = 0`: the counters are reset for a non-empty
\* list only.
ResetsCounters(L) == L # <<>>

\* scrape_products_from_links(L, enable_retry=r) is called on the instance,
\* freshly constructed or after an earlier call has returned. An empty list
\* returns at once; otherwise the counters are reset and the main pool is
\* created. self.results and self.failed_urls are not touched. The history
\* kept per URL starts afresh, for the URLs of L and those still queued.
CallScrape(L, r) ==
    LET U == Range(L) \cup Range(failed_urls) IN
    /\ pc = "start" \/ (pc = "done" /\ ~recalled)
    /\ recalled' = (pc = "done")
    /\ before' = [results |-> results, failed_urls |-> failed_urls,
                  total_count |-> total_count,
                  scraped_count |-> scraped_count, sleeps |-> sleeps]
    /\ links' = L
    /\ enable_retry' = r
    /\ total_count' = IF ResetsCounters(L) THEN Len(L) ELSE total_count
    /\ scraped_count' = IF ResetsCounters(L) THEN 0 ELSE scraped_count
    /\ IF L = <<>>
       THEN /\ pc' = "done"
            /\ UNCHANGED <<pool_size, i, collected, current_failed, sleeps,
                           histVars, log>>
       ELSE /\ pc' = "submit"
            /\ pool_size' = max_workers
            /\ i' = 1
            /\ collected' = 0
            /\ current_failed' = <<>>
            /\ sleeps' = <<>>
            /\ attempts' = [u \in U |-> 0]
            /\ last' = [u \in U |-> "none"]
            /\ always_fetch_failed' = [u \in U |-> FALSE]
            /\ parsed' = [u \in U |-> FALSE]
            /\ log' = [u \in U |-> {}]
    /\ UNCHANGED <<max_workers, results, failed_urls, retry_results,
                   retry_attempt, poolVars, io_errors, stats, exitVars,
                   sessVars, discVars, priceVars>>

\* A freshly constructed scraper with at least one worker.
InitCalls ==
    /\ SideIdle
    /\ InitFor(<<>>)
    /\ max_workers > 0
    /\ enable_retry = TRUE

NextCalls ==
    \/ \E L \in CallLists, r \in BOOLEAN : CallScrape(L, r)
    \/ Submit
    \/ Delay
    \/ StartUnit
    \/ \E w \in running, o \in Outcomes : FinishUnit(w, o)
    \/ Collect
    \/ EndDispatch
    \/ RetryCheck
    \/ RetrySleep
    \/ RetrySubmit
    \/ RetryCollect
    \/ EndRetryPass

\* Up to two calls of scrape_products_from_links on one instance.
SpecCalls == InitCalls /\ [][NextCalls]_vars

\* ------------------------------------------------------------- properties
\* scrape_products_from_links has returned normally (state Done).
Done == pc \in {"done", "export_json", "upload"} \/ stats # NoStats

\* Number of positions of sequence s that hold x.
Occ(s, x) == Cardinality({k \in 1..Len(s) : s[k] = x})

\* The units of work submitted to the pool and not yet finished.
InFlight == running \cup Range(work_queue)

\* The quotient r equals the integer k.
RateIs(r, k) == r.den > 0 /\ r.num = k * r.den

\* C1: at Done, the records in results plus the URLs left in failed_urls
\* number Len(links), and every input URL is in exactly one of the two,
\* exactly once.
C1_NoUrlLostOrDoubled ==
    Done =>
      /\ Len(results) + Len(failed_urls) = Len(links)
      /\ \A u \in Range(links) :
           Occ(results, ProductInfo(u)) + Occ(failed_urls, u) = 1

C1_Witness ==
    /\ Done
    /\ Len(links) = 2
    /\ max_workers = 2
    /\ Len(results) = 1
    /\ Len(failed_urls) = 1
    /\ \E u \in Range(links) : attempts[u] = 3 /\ last[u] = "ok"

\* C2: with retry enabled, a URL whose fetch failed on every attempt has, at
\* Done, been attempted once plus max_retries times (one more attempt in each
\* retry pass it was pending in), is in failed_urls and not in results;
\* after Done no attempt is made any more.
C2_AlwaysFailing ==
    /\ [](\A u \in Range(links) :
            /\ always_fetch_failed[u] /\ pc \in {"retry_check", "retry_sleep"}
                 => attempts[u] = 1 + retry_attempt
            /\ Done /\ enable_retry /\ always_fetch_failed[u] =>
                 /\ attempts[u] = 1 + max_retries
                 /\ Occ(failed_urls, u) = 1
                 /\ Occ(results, ProductInfo(u)) = 0
                 /\ work_queue = <<>> /\ running = {})
    /\ [][Done => attempts' = attempts]_vars

C2_Witness ==
    /\ Done
    /\ enable_retry
    /\ Len(links) = 2
    /\ always_fetch_failed[2]
    /\ attempts[2] = 1 + max_retries
    /\ failed_urls = <<2>>
    /\ results = <<ProductInfo(1)>>

\* C3: a URL that succeeded is never in flight again nor pending, and a URL
\* that failed in the initial dispatch and succeeded in the first retry pass
\* is, at Done, exactly once in results and not in failed_urls.
C3_RetrySuccessOnce ==
    /\ \A w \in InFlight : last[w.url] # "ok"
    /\ \A u \in Range(links) : last[u] = "ok" => Occ(failed_urls, u) = 0
    /\ Done =>
         \A u \in Range(links) :
            attempts[u] = 2 /\ last[u] = "ok" =>
               /\ Occ(results, ProductInfo(u)) = 1
               /\ Occ(failed_urls, u) = 0

C3_Witness ==
    /\ Done
    /\ \E u \in Range(links) : attempts[u] = 2 /\ last[u] = "ok"
    /\ \E u \in Range(links) : attempts[u] = 3 /\ last[u] # "ok"

\* The run of the scenario: "/a", "/b", "/c" given, "/b" failing its fetch
\* on every attempt, "/a" and "/c" succeeding.
Scenario ==
    /\ links = <<UrlA, UrlB, UrlC>>
    /\ enable_retry
    /\ always_fetch_failed[UrlB]
    /\ last[UrlA] = "ok" /\ attempts[UrlA] = 1
    /\ last[UrlC] = "ok" /\ attempts[UrlC] = 1

\* C4: at Done get_statistics reports total = Len(links), succeeded = the
\* number of records in results, failed = the number of URLs in failed_urls;
\* in the scenario results hold the records of "/a" and "/c" and the report
\* is total 3, succeeded 2, failed 1.
C4_Statistics ==
    Done =>
      /\ get_statistics.total_urls = Len(links)
      /\ get_statistics.successful_scrapes = Len(results)
      /\ get_statistics.failed_scrapes = Len(failed_urls)
      /\ stats # NoStats => stats = get_statistics
      /\ Scenario =>
           /\ Range(results) = {ProductInfo(UrlA), ProductInfo(UrlC)}
           /\ Len(results) = 2
           /\ get_statistics.total_urls = 3
           /\ get_statistics.successful_scrapes = 2
           /\ get_statistics.failed_scrapes = 1

C4_Witness ==
    /\ Scenario
    /\ pc = "exited"
    /\ stats # NoStats
    /\ stats.total_urls = 3
    /\ stats.failed_scrapes = 1
    /\ attempts[UrlB] = 1 + max_retries

\* C5: the success rate reported is 0 whenever total_count is 0, and 100 at
\* Done of a run in which every URL succeeded.
C5_SuccessRate ==
    /\ total_count = 0 => RateIs(get_statistics.success_rate, 0)
    /\ Done /\ (\A u \in Range(links) : last[u] = "ok")
         => RateIs(get_statistics.success_rate, 100)

C5_Witness ==
    /\ Done
    /\ Len(links) = 2
    /\ \A u \in Range(links) : last[u] = "ok"
    /\ \E u \in Range(links) : attempts[u] = 2
    /\ RateIs(get_statistics.success_rate, 100)

\* The main thread is inside the `with` block of a retry pass.
InRetryPool == pc \in {"retry_submit", "retry_collect"}

\* The main thread is inside the `with` block of the initial dispatch.
InMainPool == pc \in {"submit", "delay", "collect"}

\* C6: units of the initial dispatch are in flight only while the main
\* thread is in the initial `with` block, units of retry pass n only while
\* it is in the block of pass n (or unwinding from it); between blocks
\* nothing is in flight and, once retry has begun, every input URL has been
\* attempted; every unit of a retry pass is an input URL whose latest attempt
\* failed.
C6_PassesAreSequential ==
    /\ \A w \in InFlight :
         /\ InMainPool => w.pass = 0
         /\ InRetryPool => w.pass = retry_attempt + 1
         /\ pc \in {"submit", "delay", "collect", "retry_submit",
                    "retry_collect", "shutdown"}
         /\ w.pass >= 1 =>
              /\ w.url \in Range(links)
              /\ last[w.url] \notin {"ok", "none"}
    /\ \A v, w \in InFlight : v.pass = w.pass
    /\ pc \in {"retry_check", "retry_sleep", "retry_submit", "retry_collect"}
         => \A u \in Range(links) : attempts[u] >= 1
    /\ InRetryPool =>
         \A u \in Range(links) : attempts[u] >= 1 + retry_attempt
                                   \/ last[u] = "ok"
                                   \/ u \in Range(current_failed)

C6_Witness ==
    /\ pc = "retry_collect"
    /\ retry_attempt = 1
    /\ Cardinality(running) = 2
    /\ \E w \in running : last[w.url] = "empty_body"

\* C7: an attempt that fails in any way appends its URL to failed_urls and
\* completes its future with None, leaving the main thread and the other
\* units of the pool as they were; no future ever holds an exception, the
\* main thread unwinds only on a signal, and the exit status is 1 only when
\* the pool could not be set up.
C7_FailuresContained ==
    /\ [](/\ \A k \in 1..Len(completed) : completed[k].result # "raise"
          /\ pc = "shutdown" => fault = "SystemExit"
          /\ exit_status = 1 => max_workers <= 0)
    /\ [][\A u \in Range(links) :
            attempts'[u] # attempts[u] /\ last'[u] # "ok" =>
               /\ failed_urls' = Append(failed_urls, u)
               /\ completed' = Append(completed, [url |-> u, result |-> "None"])
               /\ \E w \in running : w.url = u /\ running' = running \ {w}
               /\ work_queue' = work_queue
               /\ pc' = pc /\ fault' = fault /\ results' = results]_vars

C7_Witness ==
    /\ pc = "retry_collect"
    /\ Len(links) = 2
    /\ last[1] = "unexpected"
    /\ attempts[1] = 2
    /\ failed_urls = <<1>>
    /\ completed = <<[url |-> 1, result |-> "None"]>>
    /\ \E w \in running : w.url = 2

\* C8: whenever the latest attempt on a URL failed (so that the attempt put
\* the URL on failed_urls), that attempt logged an error naming the URL.
C8_EveryFailureLogged ==
    \A u \in Range(links) : last[u] \notin {"ok", "none"} => log[u] # {}

\* C9: once a signal has been handled nothing is submitted to a pool, no
\* retry pass starts or ends, no result is collected, and the main thread
\* only waits for the pool and exits; a unit leaves the pool only by
\* finishing its attempt; the process ends with nothing in flight and with
\* exit status 0.
C9_Interrupt ==
    /\ [](interrupted =>
            /\ fault = "SystemExit"
            /\ pc \in {"shutdown", "exited"}
            /\ pc = "exited" =>
                 /\ exit_status = 0
                 /\ work_queue = <<>>
                 /\ running = {})
    /\ [][/\ interrupted =>
               /\ Len(work_queue') <= Len(work_queue)
               /\ running' \cup Range(work_queue') \subseteq InFlight
               /\ retry_attempt' = retry_attempt
               /\ results' = results
               /\ retry_results' = retry_results
          /\ \A w \in InFlight \ (running' \cup Range(work_queue')) :
               attempts'[w.url] = attempts[w.url] + 1]_vars

C9_Witness ==
    /\ interrupted
    /\ pc = "exited"
    /\ exit_status = 0
    /\ Len(links) = 2
    /\ attempts[1] = 1
    /\ attempts[2] = 0
    /\ results = <<>>

\* C10: a run that was interrupted ends with a non-zero exit status, and the
\* exit status is non-zero only after an interrupt or a failure to set up
\* the pool, whatever units, exports and upload failed.
C10_ExitStatus ==
    /\ interrupted /\ pc = "exited" => exit_status # 0
    /\ exit_status \notin {-1, 0} => interrupted \/ max_workers <= 0

\* The backoff sleeps of the run so far, in order.
Backoffs == SelectSeq(sleeps, LAMBDA e : e.kind = "backoff")

\* The submission delays of the run so far, in order.
Delays == SelectSeq(sleeps, LAMBDA e : e.kind = "delay")

\* C11 as stated: retry pass n sleeps 2^n seconds, 2 before the first pass
\* and 4 before the second.
C11_BackoffTwoPowN ==
    \A n \in 1..Len(Backoffs) : Backoffs[n].n = Pow2(n)

\* C11 as amended: retry pass n sleeps 2^(n-1) seconds, 1 before the first
\* pass and 2 before the second; there is one such sleep per pass, after the
\* drain and before the first submission of the pass, whatever the batch.
C11_BackoffTwoPowNMinusOne ==
    /\ \A n \in 1..Len(Backoffs) : Backoffs[n].n = Pow2(n - 1)
    /\ Len(Backoffs) >= 1 => Backoffs[1].n = 1
    /\ Len(Backoffs) >= 2 => Backoffs[2].n = 2
    /\ Len(Backoffs) <= max_retries
    /\ pc \in {"retry_check", "retry_sleep"} => Len(Backoffs) = retry_attempt
    /\ pc \in {"retry_submit", "retry_collect"}
         => Len(Backoffs) = retry_attempt + 1
    /\ pc = "retry_sleep" =>
         /\ current_failed # <<>>
         /\ failed_urls = <<>>
         /\ work_queue = <<>> /\ running = {}

C11_Witness ==
    /\ pc = "retry_collect"
    /\ retry_attempt = 1
    /\ Len(Backoffs) = 2
    /\ Backoffs[1].n = 1
    /\ Backoffs[2].n = 2
    /\ Len(current_failed) = 2

\* C12: the units of the initial dispatch that run at one time never number
\* more than max_workers, and the units of one retry pass never more than
\* min(5, max_workers), however many URLs wait and whatever the timing.
C12_PoolBound ==
    /\ Cardinality({w \in running : w.pass = 0}) <= max_workers
    /\ \A n \in 1..max_retries :
         Cardinality({w \in running : w.pass = n})
           <= Min(RetryPoolCap, max_workers)
    /\ InMainPool => Cardinality(running) <= max_workers
    /\ InRetryPool => Cardinality(running) <= Min(RetryPoolCap, max_workers)

\* A retry pass whose pool is full while a unit still waits, in a scraper
\* configured for more workers than the retry pool allows.
C12_Witness ==
    /\ InRetryPool
    /\ max_workers > RetryPoolCap
    /\ Cardinality(running) = RetryPoolCap
    /\ work_queue # <<>>

\* C13: once the initial dispatch has begun, scrape_products_from_links
\* returns (Done) whatever the outcomes, after at most max_retries retry
\* passes; and a retry pass that starts on an empty pending set goes to Done
\* in that step, with no backoff sleep, no pool and no submission.
C13_ReachesDone ==
    /\ (pc = "submit") ~> Done
    /\ [](Len(Backoffs) <= max_retries /\ retry_attempt <= max_retries)
    /\ [][(pc = "retry_check" /\ failed_urls = <<>>)
            => (pc' = "done" /\ sleeps' = sleeps /\ pool_size' = pool_size
                /\ work_queue' = work_queue /\ running' = running)]_vars

\* Done reached at the head of the second retry pass, whose pending set is
\* empty because the first pass repaired every failure.
C13_Witness ==
    /\ pc = "done"
    /\ retry_attempt = 1
    /\ Len(Backoffs) = 1
    /\ failed_urls = <<>>
    /\ \E u \in Range(links) : attempts[u] = 2

\* URLs whose latest attempt ended in failed_urls.put.
FailedNow == {u \in Range(links) : last[u] \notin {"none", "ok"}}

\* C17: the pending-retry queue is tested and drained by the main thread
\* only, at the head of a retry pass and once per pass, when no unit is
\* queued or running and no pool is open; the drain takes every URL put so
\* far, so no put of pass n is missed by pass n + 1; the queue shrinks in no
\* other step.
C17_DrainAtPassBoundary ==
    /\ [](pc \in {"retry_check", "retry_sleep", "done"}
            => (InFlight = {} /\ completed = <<>> /\ pool_size = 0))
    /\ [](pc = "retry_check" => Range(failed_urls) = FailedNow)
    /\ [](pc = "retry_sleep"
            => (failed_urls = <<>> /\ Range(current_failed) = FailedNow))
    /\ [](pc \in {"retry_submit", "retry_collect"}
            => \A u \in Range(failed_urls) :
                 u \in Range(current_failed) /\ attempts[u] = retry_attempt + 2)
    /\ [][Len(failed_urls') < Len(failed_urls)
            => (pc = "retry_check" /\ pc' = "retry_sleep"
                /\ InFlight = {}
                /\ current_failed' = failed_urls /\ failed_urls' = <<>>)]_vars
    /\ [][current_failed' # current_failed => pc = "retry_check"]_vars

\* The second drain of a run: both URLs failed again in the first retry pass
\* and are taken together, with nothing in flight.
C17_Witness ==
    /\ pc = "retry_sleep"
    /\ retry_attempt = 1
    /\ Len(current_failed) = 2
    /\ failed_urls = <<>>
    /\ \A u \in Range(links) : attempts[u] = 2

\* The fetch of the latest attempt on u returned a page body (status 2xx).
FetchSucceeded(u) == last[u] \in {"ok", "parse_error", "empty_body"}

\* C18: after every successful fetch the page body and the URL have been
\* handed to the parser, and a URL is put on the retry queue only by an
\* attempt whose fetch failed, whose parse failed or that met an unexpected
\* fault; the empty page body is a successful fetch like any other.
C18_SuccessfulFetchIsParsed ==
    \A u \in Range(links) :
        /\ FetchSucceeded(u) => parsed[u]
        /\ last[u] = "empty_body" => Occ(failed_urls, u) = 0

\* URLs submitted so far to the pool of the initial dispatch.
Submitted == {w.url : w \in InFlight} \cup {u \in Range(links) : attempts[u] > 0}

\* C19: in the initial dispatch of N URLs the delay is slept after each
\* submission but the last and nowhere else: submission k + 1 comes after
\* the k-th delay, N - 1 delays have been slept when the last URL has been
\* submitted and none is added later, and a submission is never held back
\* by units still queued or running.
C19_DelayBetweenSubmissions ==
    /\ \A k \in 1..Len(Delays) : Delays[k].n = k
    /\ sleeps = Delays \o Backoffs
    /\ pc = "submit" =>
         /\ i \in 1..Len(links)
         /\ Cardinality(Submitted) = i - 1
         /\ Len(Delays) = i - 1
         /\ ENABLED Submit
    /\ pc = "delay" =>
         /\ i < Len(links)
         /\ Cardinality(Submitted) = i
         /\ Len(Delays) = i - 1
    /\ (pc \in {"collect", "retry_check", "retry_sleep", "retry_submit",
                "retry_collect"} \/ (Done /\ links # <<>>))
         => Len(Delays) = Len(links) - 1

\* The second URL has been submitted, one delay after the first, while the
\* first unit still occupies the only worker.
C19_Witness ==
    /\ pc = "collect"
    /\ Len(links) = 2
    /\ max_workers = 1
    /\ Len(Delays) = 1
    /\ running = {[url |-> links[1], pass |-> 0]}
    /\ work_queue = <<[url |-> links[2], pass |-> 0]>>

\* C14: every thread gets one HTTP client of its own: the client is made on
\* the thread's first call of get_session and not before, every later call
\* from that thread returns the same client, no second client is made for
\* the thread, and no client is returned to two threads.
C14_OneSessionPerThread ==
    /\ \A t \in Threads :
         /\ \A j, k \in 1..Len(returned[t]) : returned[t][j] = returned[t][k]
         /\ \A k \in 1..Len(returned[t]) : returned[t][k] \in 1..sessions_made
         /\ (returned[t] = <<>> /\ tpc[t] = "idle") => local_data[t] = 0
    /\ \A t, u \in Threads :
         t # u => Range(returned[t]) \cap Range(returned[u]) = {}
    /\ sessions_made
         = Cardinality({t \in Threads : tpc[t] = "store" \/ local_data[t] # 0})

\* Two threads have each called get_session twice, interleaved, and hold
\* different clients.
C14_Witness ==
    /\ Len(returned[1]) = 2
    /\ Len(returned[2]) = 2
    /\ returned[1][1] = 2
    /\ returned[2][1] = 1
    /\ returned[3] = <<>>

\* The product links on the listing pages whose GET returned status 200.
LinksOnFetchedPages ==
    {FullLink(h) : h \in {x \in UNION {snapshot[p].hrefs :
                                 p \in {q \in 1..total_pages :
                                          snapshot[q].kind = "ok"}} :
                            x.prefix = "urun/"}}

\* C15: every list scrape_product_links returns is in strictly increasing
\* string order (so sorted and free of duplicates), holds exactly the
\* product links found on the listing pages that were fetched successfully,
\* and is the same for every call on one snapshot of the site.
C15_SortedDistinctLinks ==
    \A k \in 1..Len(discovered) :
        LET l == discovered[k] IN
        /\ \A a, b \in 1..Len(l) : a < b => l[a].href.name < l[b].href.name
        /\ Range(l) = LinksOnFetchedPages
        /\ l = discovered[1]

\* Two calls on a site whose two pages both list product 1, the second
\* also product 2 and a page that is no product.
C15_Witness ==
    /\ Len(discovered) = 2
    /\ total_pages = 2
    /\ snapshot[1] = [kind |-> "ok", hrefs |-> {[prefix |-> "urun/", name |-> 1]}]
    /\ snapshot[2].kind = "ok" /\ snapshot[2].hrefs = Hrefs
    /\ Len(discovered[2]) = 2
    /\ discovered[2][1].href.name = 1

\* C20: the listing pages are fetched one at a time in increasing order, a
\* page that returns another status or raises does not stop the loop, and
\* the delay is slept between every two consecutive GETs whatever the
\* earlier one met.
C20_DelayBetweenFetches ==
    /\ \A k \in 1..(Len(dlog) - 1) :
         dlog[k].e = "get" => dlog[k + 1].e = "sleep"
    /\ LET gets == SelectSeq(dlog, LAMBDA x : x.e = "get") IN
         /\ \A k \in 1..Len(gets) : gets[k].page = k
         /\ dpc = "pages" => Len(gets) = page - 1
         /\ dpc \in {"returned", "raised"} => Len(gets) = total_pages

\* Number of positions of the character sequence s that hold a character of
\* the set S.
CountIn(s, S) == Cardinality({k \in 1..Len(s) : s[k] \in S})

\* C16: clean_price turns "1.234,56 TL" into "1234.56 TRY" and "199,90 TL"
\* into "199.90 TRY"; for any TL price with a number in it the result is
\* that number followed by " TRY", with the same digits, no comma, a dot for
\* each comma, and the number's own dots dropped when it has a comma too.
C16_CleanPrice ==
    price_pc = "returned" =>
      /\ price_str = PriceWithThousands
           => cleaned = <<"1", "2", "3", "4", ".", "5", "6", " ", "T", "R", "Y">>
      /\ price_str = PriceWithComma
           => cleaned = <<"1", "9", "9", ".", "9", "0", " ", "T", "R", "Y">>
      /\ LET t == Strip(price_str)
             m == FirstNumericRun(t)
         IN  (Contains(t, <<"T", "L">>) /\ m # <<>>) =>
               LET n == Len(cleaned) - 4
                   body == SubSeq(cleaned, 1, n)
               IN  /\ n >= 0
                   /\ SubSeq(cleaned, n + 1, n + 4) = <<" ", "T", "R", "Y">>
                   /\ SelectSeq(body, LAMBDA c : c \in DigitChars)
                        = SelectSeq(m, LAMBDA c : c \in DigitChars)
                   /\ CountIn(body, {","}) = 0
                   /\ CountIn(m, {","}) > 0
                        => CountIn(body, {"."}) = CountIn(m, {","})
                   /\ CountIn(m, {","}) = 0 => body = m

C16_Witness ==
    /\ price_pc = "returned"
    /\ price_str = PriceWithThousands
    /\ cleaned = <<"1", "2", "3", "4", ".", "5", "6", " ", "T", "R", "Y">>

\* C21: whenever a call of scrape_products_from_links has returned, however
\* many calls the instance has served, get_statistics reports
\* succeeded + failed = total and a success rate between 0 and 100, total
\* being the length of the latest non-empty list: nothing of an earlier call
\* is counted.
C21_StatisticsPerCall ==
    pc = "done" =>
      LET s == get_statistics IN
      /\ s.successful_scrapes + s.failed_scrapes = s.total_urls
      /\ s.total_urls = IF links # <<>> THEN Len(links) ELSE before.total_count
      /\ s.success_rate.den > 0
      /\ 0 <= s.success_rate.num
      /\ s.success_rate.num <= 100 * s.success_rate.den

\* The same statement for an instance that has served one call only.
FirstCallStatistics == recalled \/ C21_StatisticsPerCall

\* C22: a call of scrape_products_from_links with an empty list submits no
\* unit, opens no pool, runs no retry pass (no backoff sleep, no attempt,
\* even when URLs wait in the queue) and leaves results, failed_urls,
\* total_count and scraped_count as they were; this stays so until the next
\* call.
C22_EmptyListIsNoOp ==
    /\ []((pc = "done" /\ links = <<>>) =>
            /\ results = before.results
            /\ failed_urls = before.failed_urls
            /\ total_count = before.total_count
            /\ scraped_count = before.scraped_count
            /\ sleeps = before.sleeps
            /\ InFlight = {} /\ completed = <<>> /\ pool_size = 0)
    /\ [][(links' = <<>> /\ pc' = "done"
             /\ (pc = "start" \/ (~recalled /\ recalled')))
            => /\ results' = results
               /\ failed_urls' = failed_urls
               /\ total_count' = total_count
               /\ scraped_count' = scraped_count
               /\ work_queue' = work_queue /\ running' = running
               /\ completed' = completed
               /\ pool_size' = pool_size
               /\ sleeps' = sleeps
               /\ retry_attempt' = retry_attempt
               /\ attempts' = attempts]_vars

\* An empty list passed to an instance whose earlier call over two URLs left
\* a record in results and a URL in the queue.
C22_Witness ==
    /\ recalled
    /\ links = <<>>
    /\ pc = "done"
    /\ total_count = 2
    /\ Len(results) = 1
    /\ Len(failed_urls) = 1
    /\ before.results = results
    /\ before.failed_urls = failed_urls

====
